---- MODULE Spec2Model ----
(***************************************************************************)
(* Model of tobab: the storm-backed host registry (package storm) and the  *)
(* server lifecycle of package main (run, startServer, restartServer,      *)
(* generateProxy).                                                         *)
(***************************************************************************)
EXTENDS Integers, Sequences, FiniteSets, TLC

VARIABLES
    registry,   \* stormDB.db: the Host bucket, keyed by Hostname
    calls,      \* registry / control-interface calls, one record per call
    proc,       \* the process: "running", or how it ended
    server,     \* app.server: <<>> while nil, <<s>> once it points to s
    srvState,   \* per http.Server: "none", "new", "serving", "closed"
    inShutdown, \* per http.Server: Shutdown has been called on it
    bound,      \* set of listeners currently bound to the HTTPS port
    starter,    \* startServer goroutines
    restart,    \* restartServer goroutines
    inflight    \* per http.Server: the requests its handlers are forwarding

vars == <<registry, calls, proc, server, srvState, inShutdown, bound,
          starter, restart, inflight>>

srvVars == <<proc, server, srvState, inShutdown, bound, starter, restart,
             inflight>>

-----------------------------------------------------------------------------
(* Bounds *)

\* Registry calls made against a fresh database.
MaxCalls == 3

\* Control-interface calls made during one run of the process.
MaxReloads == 2

\* Requests one server is forwarding at a time.
MaxConns == 1

CallIds == 1 .. MaxCalls

RpcIds == 1 .. MaxReloads

\* One http.Server (and listener) per startServer: 0 is the boot-time one,
\* c the one started by the reload that call c scheduled.
ServerIds == 0 .. MaxReloads

-----------------------------------------------------------------------------
(* Values *)

Nil == "nil"

ManagementHost == "tobab.example.com"

\* Hostnames in the byte order in which a bolt cursor visits the keys.
HostOrder == <<"a.example.com", "b.example.com", "tobab.example.com">>

Hostnames == {HostOrder[i] : i \in 1 .. Len(HostOrder)}

Backends == {"http://127.0.0.1:9000", "not-a-url", "http://[::1"}

Types == {"http", "tcp"}

Host == [Hostname : Hostnames, Backend : Backends, Type : Types]

ZeroHost == [Hostname |-> "", Backend |-> "", Type |-> ""]

ErrNotFound == "not found"

\* Errors of the collaborators of startServer: the storage engine, the
\* certificate client, the HTTPS port and the accept loop.
ErrDatabase == "database not open"

ErrCertificate == "failed to obtain certificate"

ErrAddrInUse == "bind: address already in use"

ErrAccept == "accept: too many open files"

ErrServerClosed == "http: Server closed"

\* ctx.Err() once the minute of restartServer is over.
ErrDeadlineExceeded == "context deadline exceeded"

-----------------------------------------------------------------------------
(* package storm: the registry *)

\* A codec that does not store the Type.
Marshal_DropsType(h) == <<h.Hostname, h.Backend, "">>

\* The codec: a Host is stored as the encoding of its three fields.
Marshal(h) == <<h.Hostname, h.Backend, h.Type>>

Unmarshal(raw) == [Hostname |-> raw[1], Backend |-> raw[2], Type |-> raw[3]]

\* The key of a record in the Host bucket.
HostID(h) == h.Hostname

\* A Save that rewrites the bucket from a stale, empty view of it.
Save_LostUpdate(reg, h) ==
    [reg |-> [k \in {h.Hostname} |-> <<h.Hostname, h.Backend, h.Type>>],
     err |-> "nil"]

\* db.db.Save(&h): one write transaction; puts the record under its key.
Save(reg, h) ==
    [reg |-> [k \in DOMAIN reg \cup {HostID(h)} |->
                 IF k = HostID(h) THEN Marshal(h) ELSE reg[k]],
     err |-> Nil]

\* db.db.One("Hostname", hostname, &h): one read transaction.
One(reg, hostname) ==
    IF hostname \in DOMAIN reg
    THEN [h |-> Unmarshal(reg[hostname]), err |-> Nil]
    ELSE [h |-> ZeroHost, err |-> ErrNotFound]

RECURSIVE AllFrom(_, _)
AllFrom(reg, i) ==
    IF i > Len(HostOrder) THEN <<>>
    ELSE IF HostOrder[i] \in DOMAIN reg
         THEN <<Unmarshal(reg[HostOrder[i]])>> \o AllFrom(reg, i + 1)
         ELSE AllFrom(reg, i + 1)

\* db.db.All(&hosts): one read transaction, records in key order.
All(reg) == [hosts |-> AllFrom(reg, 1), err |-> Nil]

\* A DeleteStruct that empties the bucket of the record's type.
DeleteStruct_Wipes(reg, h) ==
    IF HostID(h) \in DOMAIN reg
    THEN [reg |-> <<>>, err |-> Nil]
    ELSE [reg |-> reg, err |-> ErrNotFound]

\* A DeleteStruct that returns no error when there is no record.
DeleteStruct_Silent(reg, h) ==
    [reg |-> [k \in DOMAIN reg \ {HostID(h)} |-> reg[k]], err |-> Nil]

\* db.db.DeleteStruct(h): one write transaction; removes the record keyed
\* by h's id, ErrNotFound when there is none.
DeleteStruct(reg, h) ==
    IF HostID(h) \in DOMAIN reg
    THEN [reg |-> [k \in DOMAIN reg \ {HostID(h)} |-> reg[k]], err |-> Nil]
    ELSE [reg |-> reg, err |-> ErrNotFound]

\* func (db *stormDB) AddHost(h tobab.Host) error
StormAddHost(reg, h) == Save(reg, h)

\* func (db *stormDB) GetHost(hostname string) (*tobab.Host, error)
StormGetHost(reg, hostname) == One(reg, hostname)

\* func (db *stormDB) GetHosts() ([]tobab.Host, error)
StormGetHosts(reg) == All(reg)

IdleCall == [op |-> "none", arg |-> ZeroHost, pc |-> "idle", err |-> Nil,
             out |-> <<>>]

HostnameArg(hostname) == [Hostname |-> hostname, Backend |-> "", Type |-> ""]

\* An AddHost that waits while a startServer is inside certmagic.Listen.
CallAddHost_BehindListen(c, h, then) ==
    /\ proc = "running"
    /\ calls[c].pc = "idle"
    /\ \A s \in DOMAIN starter : starter[s].pc # "listen"
    /\ LET a == StormAddHost(registry, h) IN
       /\ registry' = a.reg
       /\ calls' = [calls EXCEPT ![c] =
                       [op |-> "AddHost", arg |-> h,
                        pc |-> IF a.err # Nil THEN "done" ELSE then,
                        err |-> a.err, out |-> <<>>]]
    /\ UNCHANGED srvVars

\* A call of stormDB.AddHost; the caller goes on at `then` when it
\* returns no error, and is done otherwise.
CallAddHost(c, h, then) ==
    /\ proc = "running"
    /\ calls[c].pc = "idle"
    /\ LET a == StormAddHost(registry, h) IN
       /\ registry' = a.reg
       /\ calls' = [calls EXCEPT ![c] =
                       [op |-> "AddHost", arg |-> h,
                        pc |-> IF a.err # Nil THEN "done" ELSE then,
                        err |-> a.err, out |-> <<>>]]
    /\ UNCHANGED srvVars

AddHost(c, h) == CallAddHost(c, h, "done")

\* A call of stormDB.GetHost
GetHost(c, hostname) ==
    /\ proc = "running"
    /\ calls[c].pc = "idle"
    /\ calls' = [calls EXCEPT ![c] =
                    [op |-> "GetHost", arg |-> HostnameArg(hostname),
                     pc |-> "done",
                     err |-> StormGetHost(registry, hostname).err,
                     out |-> <<StormGetHost(registry, hostname).h>>]]
    /\ UNCHANGED <<registry, srvVars>>

\* A call of stormDB.GetHosts
GetHosts(c) ==
    /\ proc = "running"
    /\ calls[c].pc = "idle"
    /\ calls' = [calls EXCEPT ![c] =
                    [op |-> "GetHosts", arg |-> ZeroHost, pc |-> "done",
                     err |-> StormGetHosts(registry).err,
                     out |-> StormGetHosts(registry).hosts]]
    /\ UNCHANGED <<registry, srvVars>>

\* A DeleteHost that does not return on the error of GetHost.
DeleteHost_GetHost_IgnoresErr(c, hostname) ==
    /\ proc = "running"
    /\ calls[c].pc = "idle"
    /\ LET g == StormGetHost(registry, hostname) IN
       calls' = [calls EXCEPT ![c] =
                    [op |-> "DeleteHost", arg |-> HostnameArg(hostname),
                     pc |-> "delete", err |-> g.err, out |-> <<g.h>>]]
    /\ UNCHANGED <<registry, srvVars>>

\* stormDB.DeleteHost, first half: h, err := db.GetHost(hostname); on an
\* error the call returns it.
DeleteHost_GetHost(c, hostname) ==
    /\ proc = "running"
    /\ calls[c].pc = "idle"
    /\ LET g == StormGetHost(registry, hostname) IN
       calls' = [calls EXCEPT ![c] =
                    [op |-> "DeleteHost", arg |-> HostnameArg(hostname),
                     pc |-> IF g.err # Nil THEN "done" ELSE "delete",
                     err |-> g.err, out |-> <<g.h>>]]
    /\ UNCHANGED <<registry, srvVars>>

\* stormDB.DeleteHost, second half: return db.db.DeleteStruct(h); the
\* caller goes on at `then` when it returns no error.
CallDeleteStruct(c, then) ==
    /\ proc = "running"
    /\ calls[c].pc = "delete"
    /\ LET d == DeleteStruct(registry, calls[c].out[1]) IN
       /\ registry' = d.reg
       /\ calls' = [calls EXCEPT ![c].pc = IF d.err # Nil THEN "done" ELSE then,
                                 ![c].err = d.err]
    /\ UNCHANGED srvVars

DeleteHost_DeleteStruct(c) == CallDeleteStruct(c, "done")

-----------------------------------------------------------------------------
(* package main: the proxy factory and the routing-table build *)

ZeroURL == [Scheme |-> "", Host |-> "", Hostname |-> "", Path |-> ""]

\* url.Parse(backend) on the backends of the model: an absolute URL, a
\* relative reference (parsed without error, as a path), and a URL whose
\* bracketed host is never closed (an error).
UrlParse(backend) ==
    CASE backend = "http://127.0.0.1:9000" ->
            [url |-> [Scheme |-> "http", Host |-> "127.0.0.1:9000",
                      Hostname |-> "127.0.0.1", Path |-> ""],
             err |-> Nil]
      [] backend = "not-a-url" ->
            [url |-> [Scheme |-> "", Host |-> "", Hostname |-> "",
                      Path |-> "not-a-url"],
             err |-> Nil]
      [] OTHER ->
            [url |-> ZeroURL, err |-> "missing ']' in host"]

\* func generateProxy(host, backend string) (http.Handler, error)
generateProxy(host, backend) ==
    LET u == UrlParse(backend) IN
    IF u.err # Nil
    THEN [proxy |-> [host |-> "", url |-> ZeroURL], err |-> u.err]
    ELSE [proxy |-> [host |-> host, url |-> u.url], err |-> Nil]

\* req.Header.Add(key, value): appends to the values the header has.
HeaderAdd(values, value) == Append(values, value)

\* req.Header.Get(key): the first value of the header, "" when it has none.
HeaderGet(values) == IF values = <<>> THEN "" ELSE values[1]

\* The Director of the proxy generateProxy returns, applied to the request.
Director(proxy, req) ==
    [req EXCEPT
        !.Header = [XForwardedHost |-> HeaderAdd(@.XForwardedHost,
                                                 proxy.url.Hostname),
                    XOriginHost |-> HeaderAdd(@.XOriginHost, proxy.host)],
        !.Host = proxy.url.Host,
        !.URL = [@ EXCEPT !.Host = proxy.url.Host,
                          !.Scheme = proxy.url.Scheme]]

\* The state of the build: the routes of r, certHosts, and whether
\* logger.Fatal was called.
NewBuild == [fatal |-> FALSE, r |-> <<>>, certHosts |-> <<ManagementHost>>]

\* An iteration that appends the hostname to certHosts before it calls
\* generateProxy.
RouteHost_CertFirst(b, conf) ==
    IF conf.Type # "http"
    THEN [b EXCEPT !.fatal = TRUE]
    ELSE LET g == generateProxy(conf.Hostname, conf.Backend) IN
         IF g.err # Nil
         THEN [b EXCEPT !.certHosts = Append(@, conf.Hostname)]
         ELSE [b EXCEPT !.r = Append(@, [host |-> conf.Hostname,
                                         handler |-> "proxy",
                                         proxy |-> g.proxy]),
                        !.certHosts = Append(@, conf.Hostname)]

\* One iteration of `for _, conf := range hosts`.
RouteHost(b, conf) ==
    IF conf.Type # "http"
    THEN [b EXCEPT !.fatal = TRUE]
    ELSE LET g == generateProxy(conf.Hostname, conf.Backend) IN
         IF g.err # Nil
         THEN b
         ELSE [b EXCEPT !.r = Append(@, [host |-> conf.Hostname,
                                         handler |-> "proxy",
                                         proxy |-> g.proxy]),
                        !.certHosts = Append(@, conf.Hostname)]

RECURSIVE RouteLoop(_, _, _)
RouteLoop(hosts, i, b) ==
    IF i > Len(hosts) \/ b.fatal THEN b
    ELSE RouteLoop(hosts, i + 1, RouteHost(b, hosts[i]))

\* tobabRoutes := r.Host(app.config.Hostname).Subrouter()
TobabRoutes == [host |-> ManagementHost, handler |-> "tobabRoutes",
                proxy |-> [host |-> "", url |-> ZeroURL]]

-----------------------------------------------------------------------------
(* package main: the server lifecycle *)

IdleStarter == [pc |-> "none", r |-> <<>>, certHosts |-> <<>>, err |-> Nil]

\* srv is the server Shutdown was called on and err what it returned;
\* trigger records the registry as it was when the reload was scheduled
\* (no code reads it).
IdleRestart == [pc |-> "none", srv |-> <<>>, err |-> Nil, trigger |-> <<>>]

\* startServer up to the middlewares: read the registry, build the router.
\* The read may fail in the storage engine.
startServer_Build(s) ==
    /\ proc = "running"
    /\ starter[s].pc = "load"
    /\ \E dbErr \in {Nil, ErrDatabase} :
       LET g == IF dbErr # Nil THEN [hosts |-> <<>>, err |-> dbErr]
                ELSE StormGetHosts(registry)
           b == RouteLoop(g.hosts, 1, NewBuild)
       IN  IF g.err # Nil
           THEN /\ proc' = "fatal: unable to load hosts"
                /\ starter' = [starter EXCEPT ![s].err = g.err]
           ELSE IF b.fatal
           THEN /\ proc' = "fatal: unsupported type"
                /\ UNCHANGED starter
           ELSE /\ starter' = [starter EXCEPT ![s] =
                                  [pc |-> "listen",
                                   r |-> Append(b.r, TobabRoutes),
                                   certHosts |-> b.certHosts,
                                   err |-> Nil]]
                /\ UNCHANGED proc
    /\ UNCHANGED <<inflight, registry, calls, server, srvState, inShutdown, bound,
                   restart>>

\* A startServer that logs the error of certmagic.Listen and returns.
startServer_Listen_Returns(s) ==
    /\ proc = "running"
    /\ starter[s].pc = "listen"
    /\ \E certErr \in {"nil", "failed to obtain certificate"} :
       IF certErr # "nil" \/ bound # {}
       THEN /\ starter' = [starter EXCEPT ![s].err = "failed to obtain certificate",
                                          ![s].pc = "done"]
            /\ UNCHANGED <<bound, proc>>
       ELSE /\ bound' = bound \cup {s}
            /\ starter' = [starter EXCEPT ![s].pc = "serve"]
            /\ UNCHANGED proc
    /\ UNCHANGED <<inflight, registry, calls, server, srvState, inShutdown, restart>>

\* magicListener, err := certmagic.Listen(certHosts): obtains the
\* certificates of certHosts, which may fail, and binds the HTTPS port,
\* which fails while another listener of the process holds it. A goroutine
\* at "listen" is inside this call.
startServer_Listen(s) ==
    /\ proc = "running"
    /\ starter[s].pc = "listen"
    /\ \E certErr \in {Nil, ErrCertificate} :
       IF certErr # Nil
       THEN /\ proc' = "fatal: certificate"
            /\ starter' = [starter EXCEPT ![s].err = certErr]
            /\ UNCHANGED bound
       ELSE IF bound # {}
       THEN /\ proc' = "fatal: listen"
            /\ starter' = [starter EXCEPT ![s].err = ErrAddrInUse]
            /\ UNCHANGED bound
       ELSE /\ bound' = bound \cup {s}
            /\ starter' = [starter EXCEPT ![s].pc = "serve"]
            /\ UNCHANGED proc
    /\ UNCHANGED <<inflight, registry, calls, server, srvState, inShutdown, restart>>

\* srv := &http.Server{...}; go func() { srv.Serve(magicListener) ... }()
startServer_GoServe(s) ==
    /\ proc = "running"
    /\ starter[s].pc = "serve"
    /\ srvState' = [srvState EXCEPT ![s] = "new"]
    /\ starter' = [starter EXCEPT ![s].pc = "publish"]
    /\ UNCHANGED <<inflight, registry, calls, proc, server, inShutdown, bound, restart>>

\* app.server = srv
startServer_Publish(s) ==
    /\ proc = "running"
    /\ starter[s].pc = "publish"
    /\ server' = <<s>>
    /\ starter' = [starter EXCEPT ![s].pc = "done"]
    /\ UNCHANGED <<inflight, registry, calls, proc, srvState, inShutdown, bound, restart>>

\* The goroutine of startServer: err = srv.Serve(magicListener). On a
\* server that is already shut down it closes the listener and returns
\* ErrServerClosed; otherwise it accepts until the listener is closed. Any
\* other error of the accept loop is fatal.
Serve(s) ==
    /\ proc = "running"
    /\ srvState[s] \in {"new", "serving"}
    /\ \E acceptErr \in {Nil, ErrAccept} :
       IF srvState[s] = "new" /\ inShutdown[s]
       THEN /\ acceptErr = Nil
            /\ srvState' = [srvState EXCEPT ![s] = "closed"]
            /\ bound' = bound \ {s}
            /\ starter' = [starter EXCEPT ![s].err = ErrServerClosed]
            /\ UNCHANGED proc
       ELSE IF acceptErr # Nil
       THEN /\ proc' = "fatal: serve"
            /\ starter' = [starter EXCEPT ![s].err = acceptErr]
            /\ UNCHANGED <<srvState, bound>>
       ELSE /\ srvState[s] = "new"
            /\ srvState' = [srvState EXCEPT ![s] = "serving"]
            /\ UNCHANGED <<proc, bound, starter>>
    /\ UNCHANGED <<inflight, registry, calls, server, inShutdown, restart>>

\* restartServer up to the call of app.server.Shutdown(ctx): Shutdown marks
\* the server as shutting down and closes the listeners Serve registered, so
\* that Serve returns ErrServerClosed. A nil app.server is dereferenced.
restartServer_Shutdown(c) ==
    /\ proc = "running"
    /\ restart[c].pc = "shutdown"
    /\ IF server = <<>>
       THEN /\ proc' = "panic: nil pointer dereference"
            /\ UNCHANGED <<inShutdown, srvState, bound, restart, starter>>
       ELSE LET t == server[1] IN
            /\ inShutdown' = [inShutdown EXCEPT ![t] = TRUE]
            /\ IF srvState[t] = "serving"
               THEN /\ srvState' = [srvState EXCEPT ![t] = "closed"]
                    /\ bound' = bound \ {t}
                    /\ starter' = [starter EXCEPT ![t].err = ErrServerClosed]
               ELSE UNCHANGED <<srvState, bound, starter>>
            /\ restart' = [restart EXCEPT ![c].pc = "draining",
                                          ![c].srv = server]
            /\ UNCHANGED proc
    /\ UNCHANGED <<inflight, registry, calls, server>>

\* restartServer from the return of Shutdown: it returns nil once no
\* request is in flight, and ctx.Err() when the minute is over before that,
\* leaving the requests in flight as they are; then go app.startServer()
restartServer_GoStart(c) ==
    /\ proc = "running"
    /\ restart[c].pc = "draining"
    /\ restart' = [restart EXCEPT
                      ![c].pc = "done",
                      ![c].err = IF inflight[restart[c].srv[1]] = {} THEN Nil
                                 ELSE ErrDeadlineExceeded]
    /\ starter' = [starter EXCEPT ![c].pc = "load"]
    /\ UNCHANGED <<inflight, registry, calls, proc, server, srvState, inShutdown, bound>>

\* The first route of the router of s that matches the Host of a request.
RECURSIVE MatchRoute(_, _, _)
MatchRoute(r, i, host) ==
    IF i > Len(r) THEN 0
    ELSE IF r[i].host = host THEN i
    ELSE MatchRoute(r, i + 1, host)

\* The handler the router binds to a proxied host: proxy.ServeHTTP(w, r),
\* which hands the request to the Director and forwards it.
HandleRequest(s, req) ==
    /\ proc = "running"
    /\ srvState[s] = "serving"
    /\ Cardinality(inflight[s]) < MaxConns
    /\ LET i == MatchRoute(starter[s].r, 1, req.Host) IN
       /\ i # 0
       /\ starter[s].r[i].handler = "proxy"
       /\ inflight' = [inflight EXCEPT ![s] =
                          @ \cup {[in |-> req,
                                  out |-> Director(starter[s].r[i].proxy, req)]}]
    /\ UNCHANGED <<registry, calls, proc, server, srvState, inShutdown, bound,
                   starter, restart>>

\* The backend has answered and the handler returns.
FinishRequest(s, f) ==
    /\ proc = "running"
    /\ f \in inflight[s]
    /\ inflight' = [inflight EXCEPT ![s] = @ \ {f}]
    /\ UNCHANGED <<registry, calls, proc, server, srvState, inShutdown, bound,
                   starter, restart>>

\* run: <-c; app.logger.Info("shutting down"); return
run_Interrupt ==
    /\ proc = "running"
    /\ proc' = "exit"
    /\ UNCHANGED <<inflight, registry, calls, server, srvState, inShutdown, bound,
                   starter, restart>>

-----------------------------------------------------------------------------
(* The control interface: each mutation is a registry call followed by   *)
(* an asynchronous reload.                                                *)

RPC_AddHost(c, h) == CallAddHost(c, h, "reload")

RPC_DeleteHost_GetHost(c, hostname) == DeleteHost_GetHost(c, hostname)

RPC_DeleteHost_DeleteStruct(c) == CallDeleteStruct(c, "reload")

\* go app.restartServer()
RPC_ScheduleReload(c) ==
    /\ proc = "running"
    /\ calls[c].pc = "reload"
    /\ calls' = [calls EXCEPT ![c].pc = "done"]
    /\ restart' = [restart EXCEPT ![c].pc = "shutdown",
                                  ![c].trigger = registry]
    /\ UNCHANGED <<inflight, registry, proc, server, srvState, inShutdown, bound,
                   starter>>

-----------------------------------------------------------------------------
(* The registry on its own: a fresh database and MaxCalls calls *)

InitServerVars ==
    /\ proc = "running"
    /\ server = <<>>
    /\ srvState = [s \in ServerIds |-> "none"]
    /\ inShutdown = [s \in ServerIds |-> FALSE]
    /\ bound = {}
    /\ starter = [s \in ServerIds |-> IdleStarter]
    /\ restart = [c \in RpcIds |-> IdleRestart]
    /\ inflight = [s \in ServerIds |-> {}]

InitDB ==
    /\ registry = <<>>
    /\ calls = [c \in CallIds |-> IdleCall]
    /\ InitServerVars

\* The records the calls add: to the registry a backend is an opaque string.
DbHosts == {h \in Host : h.Backend # "http://[::1"}

NextDB ==
    \E c \in CallIds :
        \/ \E h \in DbHosts : AddHost(c, h)
        \/ \E hostname \in Hostnames : GetHost(c, hostname)
        \/ GetHosts(c)
        \/ \E hostname \in Hostnames : DeleteHost_GetHost(c, hostname)
        \/ DeleteHost_DeleteStruct(c)

SpecDB == InitDB /\ [][NextDB]_vars

-----------------------------------------------------------------------------
(* The boot of the process over every registry a database can hold *)

Registries(names) ==
    UNION {[d -> {Marshal(h) : h \in Host}] : d \in SUBSET names}

\* A stored record sits under its own key.
WellKeyed(reg) == \A k \in DOMAIN reg : HostID(Unmarshal(reg[k])) = k

BootRegistries == {reg \in Registries(Hostnames) : WellKeyed(reg)}

\* run, after go app.startServer() and go app.startRPCServer()
InitRun(regs, ids) ==
    /\ registry \in regs
    /\ calls = [c \in ids |-> IdleCall]
    /\ proc = "running"
    /\ server = <<>>
    /\ srvState = [s \in ServerIds |-> "none"]
    /\ inShutdown = [s \in ServerIds |-> FALSE]
    /\ bound = {}
    /\ starter = [s \in ServerIds |->
                     IF s = 0 THEN [IdleStarter EXCEPT !.pc = "load"]
                     ELSE IdleStarter]
    /\ restart = [c \in RpcIds |-> IdleRestart]
    /\ inflight = [s \in ServerIds |-> {}]

InitBoot == InitRun(BootRegistries, {})

NextBoot ==
    \/ startServer_Build(0)
    \/ startServer_Listen(0)
    \/ startServer_GoServe(0)
    \/ startServer_Publish(0)
    \/ Serve(0)

SpecBoot == InitBoot /\ [][NextBoot]_vars

-----------------------------------------------------------------------------
(* The booted server proxying requests *)

\* Values a client may send in X-Forwarded-Host and X-Origin-Host.
ClientHeaders == {<<>>, <<"evil.example.com">>}

\* Inbound requests, as the server hands them to the router.
Requests ==
    [Method : {"GET", "POST"},
     Host : Hostnames,
     URL : [Scheme : {""}, Host : {""}, Path : {"/foo"},
            RawQuery : {"", "x=1"}],
     Header : [XForwardedHost : ClientHeaders, XOriginHost : ClientHeaders]]

NextProxy ==
    \/ NextBoot
    \/ \E req \in Requests : HandleRequest(0, req)
    \/ \E f \in inflight[0] : FinishRequest(0, f)

SpecProxy == InitBoot /\ [][NextProxy]_vars

-----------------------------------------------------------------------------
(* The running process: boot, control-interface calls, reloads, interrupt *)

RpcHosts == {h \in Host : /\ h.Hostname = "a.example.com"
                          /\ h.Backend = "http://127.0.0.1:9000"}

RpcHostnames == {h.Hostname : h \in RpcHosts}

RunRegistries == {reg \in BootRegistries :
                     \A k \in DOMAIN reg :
                         /\ Unmarshal(reg[k]).Backend = "http://127.0.0.1:9000"
                         /\ Unmarshal(reg[k]).Type = "http"
                         /\ k = "b.example.com"}

Init == InitRun(RunRegistries, RpcIds)

Next ==
    \/ \E s \in ServerIds :
          \/ startServer_Build(s)
          \/ startServer_Listen(s)
          \/ startServer_GoServe(s)
          \/ startServer_Publish(s)
          \/ Serve(s)
    \/ \E c \in RpcIds :
          \/ \E h \in RpcHosts : RPC_AddHost(c, h)
          \/ \E hostname \in RpcHostnames : RPC_DeleteHost_GetHost(c, hostname)
          \/ RPC_DeleteHost_DeleteStruct(c)
          \/ RPC_ScheduleReload(c)
          \/ restartServer_Shutdown(c)
          \/ restartServer_GoStart(c)
    \/ run_Interrupt

Spec == Init /\ [][Next]_vars

-----------------------------------------------------------------------------
(* One reload of a server that is proxying a request *)

DrainRequests == {req \in Requests : /\ req.Method = "GET"
                                     /\ req.Host = "b.example.com"
                                     /\ req.URL.RawQuery = ""
                                     /\ req.Header.XForwardedHost = <<>>
                                     /\ req.Header.XOriginHost = <<>>}

\* The hostnames the DeleteHost call names: the one AddHost adds and the
\* one the registry may hold at boot.
DrainHostnames == RpcHostnames \cup {"b.example.com"}

NextDrain ==
    \/ \E s \in ServerIds :
          \/ startServer_Build(s)
          \/ startServer_Listen(s)
          \/ startServer_GoServe(s)
          \/ startServer_Publish(s)
          \/ Serve(s)
          \/ \E req \in DrainRequests : HandleRequest(s, req)
          \/ \E f \in inflight[s] : FinishRequest(s, f)
    \/ \E h \in RpcHosts : RPC_AddHost(1, h)
    \/ \E hostname \in DrainHostnames : RPC_DeleteHost_GetHost(1, hostname)
    \/ RPC_DeleteHost_DeleteStruct(1)
    \/ RPC_ScheduleReload(1)
    \/ restartServer_Shutdown(1)
    \/ restartServer_GoStart(1)
    \/ run_Interrupt

SpecDrain == Init /\ [][NextDrain]_vars

-----------------------------------------------------------------------------
(* Properties of the registry, checked under SpecDB *)

\* The error the registry interface calls DuplicateKey.
ErrAlreadyExists == "already exists"

Registered(hostname) == hostname \in DOMAIN registry

\* Call c makes its AddHost in this step.
AddHostStep(c) == calls[c].pc = "idle" /\ calls'[c].op = "AddHost"

\* Call c makes the first step of its DeleteHost in this step.
DeleteHostStep(c) == calls[c].pc = "idle" /\ calls'[c].op = "DeleteHost"

\* The records a GetHosts would return, as a set.
Listed(reg) ==
    {StormGetHosts(reg).hosts[i] : i \in 1 .. Len(StormGetHosts(reg).hosts)}

\* C1: an AddHost with a hostname that is already registered fails with
\* DuplicateKey and leaves the record stored for that hostname as it was.
C1_DuplicateAddFails ==
    [][\A c \in CallIds :
          (AddHostStep(c) /\ Registered(calls'[c].arg.Hostname)) =>
              /\ calls'[c].err = ErrAlreadyExists
              /\ StormGetHost(registry', calls'[c].arg.Hostname)
                     = StormGetHost(registry, calls'[c].arg.Hostname)]_vars

\* C4: an AddHost of a record whose hostname is not registered succeeds, and
\* a GetHost of that hostname then succeeds and returns a record with the
\* same hostname, backend and type.
C4_AddThenGet ==
    [][\A c \in CallIds :
          (AddHostStep(c) /\ ~Registered(calls'[c].arg.Hostname)) =>
              /\ calls'[c].err = Nil
              /\ calls'[c].pc = "done"
              /\ StormGetHost(registry', calls'[c].arg.Hostname)
                     = [h |-> calls'[c].arg, err |-> Nil]]_vars

\* An AddHost of a record of Type tcp has returned and a later GetHost of its
\* hostname has returned that record.
C4_Witness ==
    \E c, d \in CallIds :
        /\ calls[c].op = "AddHost" /\ calls[c].err = Nil
        /\ calls[c].arg.Type = "tcp"
        /\ calls[d].op = "GetHost" /\ calls[d].err = Nil
        /\ calls[d].out = <<calls[c].arg>>

\* C5: a DeleteHost of a hostname that is not registered returns NotFound
\* without a further step, and no step that ends a DeleteHost in NotFound
\* changes what GetHosts returns.
C5_DeleteMissing ==
    [][\A c \in CallIds :
          /\ (DeleteHostStep(c) /\ ~Registered(calls'[c].arg.Hostname)) =>
                 /\ calls'[c].err = ErrNotFound
                 /\ calls'[c].pc = "done"
          /\ (/\ calls[c].pc # "done" /\ calls'[c].pc = "done"
              /\ calls'[c].op = "DeleteHost"
              /\ calls'[c].err = ErrNotFound) =>
                 StormGetHosts(registry').hosts = StormGetHosts(registry).hosts]_vars

\* A DeleteHost of an unregistered hostname has returned NotFound on a
\* registry that holds a record.
C5_Witness ==
    \E c \in CallIds :
        /\ calls[c].op = "DeleteHost" /\ calls[c].pc = "done"
        /\ calls[c].err = ErrNotFound
        /\ ~Registered(calls[c].arg.Hostname)
        /\ DOMAIN registry # {}

\* Every call of the run is an AddHost that has returned, and no two of them
\* have the same hostname.
AllAddsReturned ==
    /\ \A c \in CallIds : calls[c].op = "AddHost" /\ calls[c].pc = "done"
    /\ \A c, d \in CallIds :
           c # d => calls[c].arg.Hostname # calls[d].arg.Hostname

\* C8: when the calls on a fresh registry are AddHost calls for distinct
\* hostnames, in whatever order their transactions ran, each has succeeded
\* and GetHosts lists exactly their records.
C8_ConcurrentAdds ==
    AllAddsReturned =>
        /\ \A c \in CallIds : calls[c].err = Nil
        /\ Listed(registry) = {calls[c].arg : c \in CallIds}
        /\ Len(StormGetHosts(registry).hosts) = Cardinality(CallIds)

C8_Witness == AllAddsReturned /\ Cardinality(DOMAIN registry) >= 2

-----------------------------------------------------------------------------
(* Properties of the routing-table build, checked under SpecBoot *)

\* A backend is a target URL with a scheme and an authority.
MalformedBackend(backend) ==
    \/ UrlParse(backend).err # Nil
    \/ UrlParse(backend).url.Scheme = ""
    \/ UrlParse(backend).url.Host = ""

RegistryHosts == Listed(registry)

AllHttp == \A h \in RegistryHosts : h.Type = "http"

\* startServer s has built its router and certHosts.
Built(s) == starter[s].pc \in {"listen", "serve", "publish", "done"}

NoDuplicates(seq) ==
    \A i, j \in 1 .. Len(seq) : i # j => seq[i] # seq[j]

Elements(seq) == {seq[i] : i \in 1 .. Len(seq)}

\* The hostnames for which the router of s has a proxy route.
ProxyHosts(s) ==
    {starter[s].r[i].host :
        i \in {j \in 1 .. Len(starter[s].r) : starter[s].r[j].handler = "proxy"}}

\* C6: built from hosts that are all of Type http with valid backends, the
\* certificate-domain list holds the management hostname and every
\* hostname, and no hostname twice, also when a host has the management
\* hostname.
C6_CertHostsNoDuplicates ==
    \A s \in ServerIds :
        (/\ Built(s) /\ AllHttp
         /\ \A h \in RegistryHosts : ~MalformedBackend(h.Backend)) =>
            /\ Elements(starter[s].certHosts)
                   = {ManagementHost} \cup {h.Hostname : h \in RegistryHosts}
            /\ NoDuplicates(starter[s].certHosts)

\* C7: with hosts all of Type http, the build completes without ending the
\* process, and it routes exactly the hosts whose backend is not malformed.
C7_MalformedBackendExcluded ==
    AllHttp =>
        /\ proc # "fatal: unsupported type"
        /\ \A s \in ServerIds :
               Built(s) =>
                   ProxyHosts(s) =
                       {h.Hostname :
                           h \in {g \in RegistryHosts :
                                     ~MalformedBackend(g.Backend)}}

-----------------------------------------------------------------------------
(* Properties of the server lifecycle, checked under Spec *)

Serving == {s \in ServerIds : srvState[s] = "serving"}

\* The reload cycles that are draining the old server or starting a new one.
CyclesInFlight ==
    {i \in ServerIds :
        \/ starter[i].pc \in {"load", "listen", "serve", "publish"}
        \/ i \in RpcIds /\ restart[i].pc = "draining"}

\* Two reloads have shut down the same handle, whose socket is released:
\* the second was triggered while the first had not yet published its new
\* server.
OverlappingReloads ==
    \E c, d \in RpcIds :
        /\ c # d
        /\ restart[c].srv # <<>>
        /\ restart[c].srv = restart[d].srv
        /\ srvState[restart[c].srv[1]] = "closed"

\* Nothing is left to run: every call has returned and every goroutine of a
\* reload has finished.
Quiescent ==
    /\ proc = "running"
    /\ \A c \in RpcIds : /\ calls[c].pc \in {"idle", "done"}
                        /\ restart[c].pc \in {"none", "done"}
    /\ \A s \in ServerIds : /\ starter[s].pc \in {"none", "done"}
                           /\ srvState[s] # "new"

\* C2: reloads triggered while a reload is in progress end in exactly one
\* live server, built from the registry as it is now, and never are two
\* listening sockets bound at once.
C2_BackToBackReloads ==
    /\ Cardinality(bound) <= 1
    /\ OverlappingReloads =>
           /\ proc # "fatal: listen"
           /\ Quiescent =>
                  \E s \in ServerIds :
                      /\ Serving = {s}
                      /\ server = <<s>>
                      /\ starter[s].r
                             = Append(RouteLoop(StormGetHosts(registry).hosts,
                                                1, NewBuild).r, TobabRoutes)

\* C3: at most one reload cycle is in Starting or Draining at any instant.
C3_SingleFlight == Cardinality(CyclesInFlight) <= 1

\* C9: the published handle never refers to a server that has been shut
\* down or that is not yet serving.
C9_PublishedHandleIsLive ==
    server # <<>> =>
        /\ srvState[server[1]] = "serving"
        /\ ~inShutdown[server[1]]

\* C10: the process never exits on an interrupt while a server is still
\* serving, that is, without a drain of the live server.
C10_InterruptDrains == proc = "exit" => Serving = {}


-----------------------------------------------------------------------------
(* Properties of the proxy, checked under SpecProxy *)

\* The backend registered for the virtual host of a request.
BackendOf(vhost) == StormGetHost(registry, vhost).h.Backend

\* C11: whatever headers the inbound request carries, the forwarded request
\* has X-Origin-Host equal to the virtual host, X-Forwarded-Host equal to
\* the hostname of the backend, Host equal to the authority of the backend,
\* and the method, path and query of the inbound request.
C11_ForwardedRequest ==
    \A s \in ServerIds : \A f \in inflight[s] :
        /\ HeaderGet(f.out.Header.XOriginHost) = f.in.Host
        /\ HeaderGet(f.out.Header.XForwardedHost)
               = UrlParse(BackendOf(f.in.Host)).url.Hostname
        /\ f.out.Host = UrlParse(BackendOf(f.in.Host)).url.Host
        /\ f.out.Method = f.in.Method
        /\ f.out.URL.Path = f.in.URL.Path
        /\ f.out.URL.RawQuery = f.in.URL.RawQuery

-----------------------------------------------------------------------------
(* Properties of Starting, checked under Spec *)

\* The errors after which startServer goes on.
Harmless == {Nil, ErrServerClosed}

\* startServer s reads the registry and builds its router in this step.
BuildStep(s) ==
    /\ starter[s].pc = "load"
    /\ starter'[s] # starter[s] \/ proc' # proc

\* C12: a failure during Starting ends the process: once a startServer
\* holds the error of a registry read, of certmagic.Listen or of Serve (other
\* than the regular close), or has met a host of unsupported Type, the
\* process is no longer running.
C12_StartingFailureIsFatal ==
    [][\A s \in ServerIds :
          /\ starter'[s].err \notin Harmless => proc' # "running"
          /\ (BuildStep(s) /\ ~AllHttp) => proc' # "running"]_vars

\* A reload's startServer has failed in one of its collaborators.
C12_Witness ==
    \E s \in RpcIds :
        /\ starter[s].err \notin Harmless
        /\ proc \in {"fatal: unable to load hosts", "fatal: certificate",
                     "fatal: listen", "fatal: serve"}

-----------------------------------------------------------------------------
(* Properties of Draining, checked under SpecDrain *)

\* C13: the startServer of a reload never begins while the server the
\* reload shut down still has a request in flight.
C13_DrainTerminatesRequests ==
    \A c \in RpcIds :
        starter[c].pc # "none" => inflight[restart[c].srv[1]] = {}

-----------------------------------------------------------------------------
(* Properties of the control interface, checked under Spec *)

\* The process has ended in a failure of Starting.
StartingFailed ==
    proc \in {"fatal: unable to load hosts", "fatal: unsupported type",
              "fatal: certificate", "fatal: listen", "fatal: serve"}

\* The routes startServer builds from the registry as it is now.
CurrentRoutes ==
    Append(RouteLoop(StormGetHosts(registry).hosts, 1, NewBuild).r, TobabRoutes)

\* C14: a mutation that fails returns its error and schedules no reload; one
\* that succeeds schedules a reload, and then, unless Starting fails or the
\* operator interrupts, the process stays up and, once every goroutine has
\* finished, one server is Running whose routing table is that of the
\* registry.
C14_MutationReloads ==
    /\ \A c \in RpcIds :
           calls[c].pc = "done" =>
               (calls[c].err # Nil <=> restart[c].pc = "none")
    /\ (\E c \in RpcIds : restart[c].pc # "none") =>
           /\ (~StartingFailed /\ proc # "exit") => proc = "running"
           /\ Quiescent =>
                  \E s \in ServerIds :
                      Serving = {s} /\ starter[s].r = CurrentRoutes


\* A startServer is inside certmagic.Listen, obtaining certificates.
Acquiring(s) == proc = "running" /\ starter[s].pc = "listen"

\* C15: while a startServer is obtaining certificates, a control-interface
\* call that has not started can make its AddHost or DeleteHost, and a
\* DeleteHost that has read its record can delete it.
C15_MutationsNotBlocked ==
    (\E s \in ServerIds : Acquiring(s)) =>
        \A c \in RpcIds :
            /\ calls[c].pc = "idle" =>
                   /\ \A h \in RpcHosts : ENABLED RPC_AddHost(c, h)
                   /\ \A hostname \in RpcHostnames :
                          ENABLED RPC_DeleteHost_GetHost(c, hostname)
            /\ calls[c].pc = "delete" => ENABLED RPC_DeleteHost_DeleteStruct(c)

\* An AddHost has completed after a startServer built its router and while
\* that startServer is still obtaining certificates.
C15_Witness ==
    \E s \in ServerIds : \E c \in RpcIds :
        /\ Acquiring(s)
        /\ calls[c].op = "AddHost" /\ calls[c].pc \in {"reload", "done"}
        /\ calls[c].err = Nil /\ calls[c].arg.Type = "http"
        /\ Registered(calls[c].arg.Hostname)
        /\ calls[c].arg.Hostname \notin ProxyHosts(s)

\* The routes startServer builds from the registry reg.
RoutesOf(reg) ==
    Append(RouteLoop(StormGetHosts(reg).hosts, 1, NewBuild).r, TobabRoutes)

\* C16: the router a reload's startServer has built is the one of the
\* registry as it was when the reload was scheduled.
C16_BuiltFromTriggerState ==
    \A c \in RpcIds : Built(c) => starter[c].r = RoutesOf(restart[c].trigger)

-----------------------------------------------------------------------------
(* Serial executions of the registry calls, checked under SpecDB *)

\* Call k run alone on the registry reg: the registry it leaves, the error
\* and the value it returns.
SerialCall(reg, k) ==
    CASE k.op = "AddHost" ->
            [reg |-> StormAddHost(reg, k.arg).reg,
             err |-> StormAddHost(reg, k.arg).err, out |-> <<>>]
      [] k.op = "GetHost" ->
            [reg |-> reg, err |-> StormGetHost(reg, k.arg.Hostname).err,
             out |-> <<StormGetHost(reg, k.arg.Hostname).h>>]
      [] k.op = "GetHosts" ->
            [reg |-> reg, err |-> StormGetHosts(reg).err,
             out |-> StormGetHosts(reg).hosts]
      [] k.op = "DeleteHost" ->
            LET g == StormGetHost(reg, k.arg.Hostname) IN
            IF g.err # Nil
            THEN [reg |-> reg, err |-> g.err, out |-> <<>>]
            ELSE [reg |-> DeleteStruct(reg, g.h).reg,
                  err |-> DeleteStruct(reg, g.h).err, out |-> <<>>]

\* What call k returned is what the serial call r returns; DeleteHost and
\* AddHost return their error only.
SameResult(k, r) ==
    /\ k.err = r.err
    /\ k.op \in {"GetHost", "GetHosts"} => k.out = r.out

\* Some serial order of the calls in cs, begun on reg, returns what the
\* calls returned and ends in the registry as it is.
RECURSIVE Serializable(_, _)
Serializable(reg, cs) ==
    IF cs = {} THEN reg = registry
    ELSE \E c \in cs :
            /\ SameResult(calls[c], SerialCall(reg, calls[c]))
            /\ Serializable(SerialCall(reg, calls[c]).reg, cs \ {c})

\* No call is between its two transactions.
NoneHalfway == \A c \in CallIds : calls[c].pc \in {"idle", "done"}

\* C17: whenever no call is halfway, what the finished calls returned and
\* the registry they left are those of some serial order of these calls on
\* the empty registry.
C17_Serializable ==
    NoneHalfway => Serializable(<<>>, {c \in CallIds : calls[c].pc = "done"})

\* Two DeleteHost calls for a hostname an AddHost stored have both read the
\* record; one deleted it and the other found it gone.
C17_Witness ==
    \E c, d, e \in CallIds :
        /\ calls[c].pc = "done" /\ calls[d].pc = "done" /\ calls[e].pc = "done"
        /\ calls[c].op = "AddHost" /\ calls[c].err = Nil
        /\ calls[d].op = "DeleteHost" /\ calls[d].err = Nil
        /\ calls[e].op = "DeleteHost" /\ calls[e].err = ErrNotFound
        /\ calls[e].out # <<ZeroHost>>
        /\ calls[d].arg.Hostname = calls[c].arg.Hostname
        /\ calls[e].arg.Hostname = calls[c].arg.Hostname

-----------------------------------------------------------------------------
(* The certificate domains and the routes, checked under SpecBoot *)

\* Hostname hostname is in the certHosts of s exactly if the router of s has
\* a proxy route for it.
ListedIffRouted(s, hostname) ==
    hostname \in Elements(starter[s].certHosts) <=> hostname \in ProxyHosts(s)

\* C18 as claimed: in every build certHosts holds the management hostname,
\* and every registry hostname is in certHosts exactly if a proxy route was
\* bound for it.
C18_CertHostsAgreeWithRoutes ==
    \A s \in ServerIds :
        Built(s) =>
            /\ ManagementHost \in Elements(starter[s].certHosts)
            /\ \A h \in RegistryHosts : ListedIffRouted(s, h.Hostname)

\* C18 as amended: in every build certHosts holds the management hostname,
\* and every hostname other than the management hostname is in certHosts
\* exactly if a proxy route was bound for it, so that a host url.Parse
\* rejects has no certificate requested under its own hostname.
C18_OtherHostsAgreeWithRoutes ==
    \A s \in ServerIds :
        Built(s) =>
            /\ ManagementHost \in Elements(starter[s].certHosts)
            /\ \A hostname \in Hostnames \ {ManagementHost} :
                   ListedIffRouted(s, hostname)
            /\ \A h \in RegistryHosts :
                   (h.Hostname # ManagementHost /\ UrlParse(h.Backend).err # Nil)
                       => h.Hostname \notin Elements(starter[s].certHosts)

\* A build over a registry with a host that was routed and a host that was
\* excluded for its backend, neither with the management hostname.
C18_Witness ==
    \E s \in ServerIds : \E h, g \in RegistryHosts :
        /\ Built(s)
        /\ h.Hostname # ManagementHost /\ g.Hostname # ManagementHost
        /\ UrlParse(h.Backend).err # Nil
        /\ h.Hostname \notin Elements(starter[s].certHosts)
        /\ g.Hostname \in ProxyHosts(s)
        /\ g.Hostname \in Elements(starter[s].certHosts)

-----------------------------------------------------------------------------
(* The handle a reload shuts down, checked under Spec *)

\* restartServer of reload c reads app.server and calls Shutdown on it in
\* this step.
ShutdownStep(c) ==
    /\ restart[c].pc = "shutdown"
    /\ \/ restart'[c].pc = "draining"
       \/ proc' = "panic: nil pointer dereference"

\* C19: when restartServer reads app.server, a startServer has assigned it,
\* and the server it refers to is the one serving.
C19_ReloadHandleIsSet ==
    [][\A c \in RpcIds :
          ShutdownStep(c) =>
              /\ server # <<>>
              /\ srvState[server[1]] = "serving"]_vars

-----------------------------------------------------------------------------
(* The records a registry call leaves alone, checked under SpecDB *)

\* Call c takes a step (a whole AddHost, or one of the two transactions of
\* a DeleteHost) in this step.
CallStep(c) ==
    /\ calls'[c] # calls[c]
    /\ calls'[c].op \in {"AddHost", "DeleteHost"}

\* Call c is a DeleteHost that returns without an error in this step.
DeleteReturnsNil(c) ==
    /\ calls[c].pc = "delete" /\ calls'[c].pc = "done"
    /\ calls'[c].err = Nil

\* C20: a step of an AddHost or a DeleteHost for hostname h leaves what
\* GetHost returns for every other hostname as it was, whether the call
\* fails or not; and right after a DeleteHost for h has returned without an
\* error, GetHost(h) fails with ErrNotFound.
C20_OnlyOwnRecord ==
    [][\A c \in CallIds :
          /\ CallStep(c) =>
                 \A g \in Hostnames \ {calls'[c].arg.Hostname} :
                     StormGetHost(registry', g) = StormGetHost(registry, g)
          /\ DeleteReturnsNil(c) =>
                 StormGetHost(registry', calls[c].arg.Hostname)
                     = [h |-> ZeroHost, err |-> ErrNotFound]]_vars

\* A DeleteHost has removed its record while the record an AddHost stored
\* under another hostname is still there.
C20_Witness ==
    \E c, d \in CallIds :
        /\ calls[c].op = "DeleteHost" /\ calls[c].pc = "done"
        /\ calls[c].err = Nil
        /\ calls[d].op = "AddHost" /\ calls[d].pc = "done" /\ calls[d].err = Nil
        /\ calls[d].arg.Hostname # calls[c].arg.Hostname
        /\ ~Registered(calls[c].arg.Hostname)
        /\ StormGetHost(registry, calls[d].arg.Hostname)
               = [h |-> calls[d].arg, err |-> Nil]

====
